---- MODULE Spec2Model ----
(***************************************************************************)
(* Store monitoring: the report run of app/services/report_service.py     *)
(* (ReportService) and the two endpoints of app/main.py.                   *)
(*                                                                         *)
(* Time is counted in whole minutes since a Monday 00:00 UTC.  A local     *)
(* "HH:MM" string is the pair <<HH, MM>>, and the comparison of two such   *)
(* zero-padded strings is the lexicographic comparison of the pairs.  A    *)
(* time zone is a fixed offset from UTC.  Report values rounded to two     *)
(* decimals are counted in hundredths.                                     *)
(***************************************************************************)
EXTENDS Integers, Sequences, FiniteSets, TLC

\* ------------------------------------------------------------------ bounds
\* Largest number of rows of the stores table (Spec).
MaxStores == 250
\* Largest number of rows of the store_status table (AggSpec).
MaxObs == 3
\* Largest number of rows of the business_hours table (AggSpec).
MaxRules == 2

\* ------------------------------------------------------- program constants
batch_size == 100
MinutesPerHour == 60
MinutesPerDay == 1440
MinutesPerWeek == 10080
DefaultDays == 7

RUNNING == "running"
COMPLETED == "completed"
FAILED == "failed"

ALL_BATCHES == -1

\* Values of absent things: no row in the reports table, a NULL column,
\* no file on disk, no response sent.
Null == "null"
NoRow == [status |-> "no row", file_path |-> Null, created_at |-> Null, completed_at |-> Null]
Unbound == [status |-> "unbound", file_path |-> Null, created_at |-> Null, completed_at |-> Null]
NoFile == [exists |-> FALSE, rows |-> <<>>]
NoResponse == "none"
\* store_id of a store_status row that names no store (the column is nullable).
NullStore == 0

FilePath == "reports/report.csv"

\* ------------------------------------------------------------- input sets
\* 600   Monday 10:00 (before the week window when the end is 11010)
\* 930   Monday 15:30 (end - 1 week)     9570 Sunday 15:30 (end - 1 day)
\* 10980 Monday 15:00 (inside the hour)  11010 Monday 15:30 of the next week
TimePoints == {600, 930, 9570, 10980, 11010}
Statuses == {"active", "inactive"}
Timezones == {"UTC", "America/Chicago"}
\* Local opening intervals, as pairs of "HH:MM" strings.
Intervals == {<<<<9, 0>>, <<12, 0>>>>, <<<<14, 0>>, <<18, 0>>>>}
RuleDays == {0}
\* The values set_process_batch is called with.
Selectors == {-2, -1, 0, 1, 2, 3, 4}
\* Readings of the wall clock (datetime.utcnow()); only stored, never computed with.
UtcNow == {"utcnow"}
\* The store_status rows of Spec: one row that names no store.
RunStatusRows == {[store_id |-> NullStore, timestamp_utc |-> 11010, status |-> "active"]}

\* ------------------------------------------------------------------ state
VARIABLES
    stores,          \* rows of the stores table, in the order query(Store).all() returns them
    business_hours,  \* rows of the business_hours table, in query order
    store_status,    \* rows of the store_status table (unordered at rest)
    process_batch,   \* ReportService.process_batch
    db_report,       \* the committed row of the reports table (what any other session reads)
    report,          \* generate_report's session object of that row, or Null while unbound
    artifact,        \* the rows of reports/report_<id>.csv, or NoFile
    response,        \* what the last GET /get_report answered
    pc,              \* position of the run
    end_time, last_hour, last_day, last_week,   \* generate_report's window locals
    total_batches,   \* generate_report's total_batches
    todo,            \* the part of batches_to_process not yet iterated
    i,               \* loop variable of "for i in batches_to_process"
    batch_results,   \* generate_report's batch_results
    results,         \* generate_report's results
    metrics,         \* the six locals uptime_hour .. downtime_week of the last store processed
    fetched,         \* status_updates of the last call of _calculate_uptime_downtime, per window
    agg_called       \* whether _calculate_uptime_downtime has been called

data == <<stores, business_hours, store_status>>
windows == <<end_time, last_hour, last_day, last_week>>
locals == <<total_batches, todo, i, batch_results, results, metrics, fetched>>
vars == <<data, process_batch, db_report, report, artifact, response, pc, windows, locals,
          agg_called>>

\* ---------------------------------------------------------------- helpers
Min(a, b) == IF a < b THEN a ELSE b

\* range(start, stop, step) as the sequence of its values.
Range(start, stop, step) ==
    LET n == IF stop <= start THEN 0 ELSE (stop - start + step - 1) \div step
    IN [k \in 1..n |-> start + (k - 1) * step]

\* s[a:b] of a Python list (0-based, b exclusive, clipped to the list).
Slice(s, a, b) == SubSeq(s, a + 1, Min(b, Len(s)))

\* All sequences without repetition over the set S.
Orderings(S) ==
    IF S = {} THEN {<<>>}
    ELSE {f \in [1..Cardinality(S) -> S] :
             \A a, b \in 1..Cardinality(S) : a # b => f[a] # f[b]}

\* round(minutes / divisor, 2), in hundredths (no value is ever an exact tie).
Round2(minutes, divisor) == (2 * 100 * minutes + divisor) \div (2 * divisor)

\* ------------------------------------------------------ calendar resolver
\* pytz.timezone(name) and datetime.astimezone: the zone as a fixed offset.
UtcOffset(timezone) == IF timezone = "UTC" THEN 0 ELSE -360

\* local_time = timestamp_utc.astimezone(timezone)
LocalTime(timestamp_utc, timezone) == timestamp_utc + UtcOffset(timezone)

\* local_time.weekday(): 0 = Monday .. 6 = Sunday
Weekday(local_time) == (local_time \div MinutesPerDay) % DefaultDays

\* local_time.strftime("%H:%M")
TimeStr(local_time) ==
    <<(local_time % MinutesPerDay) \div MinutesPerHour, local_time % MinutesPerHour>>

\* a <= b on two zero-padded "HH:MM" strings
StrLeq(a, b) == a[1] < b[1] \/ (a[1] = b[1] /\ a[2] <= b[2])

\* _get_store_timezone: the zone of the first store row with that id, or the default.
GetStoreTimezone(store_id) ==
    LET found == {k \in 1..Len(stores) : stores[k].store_id = store_id}
    IN IF found = {} THEN "America/Chicago"
       ELSE stores[CHOOSE k \in found : \A m \in found : k <= m].timezone

\* _get_business_hours: the store's rules in query order, or 24/7 when it has none.
GetBusinessHours(store_id) ==
    LET hours == SelectSeq(business_hours, LAMBDA h : h.store_id = store_id)
    IN IF hours = <<>>
       THEN [d \in 1..DefaultDays |-> [day |-> d - 1, start |-> <<0, 0>>, end |-> <<23, 59>>]]
       ELSE [k \in 1..Len(hours) |->
                [day |-> hours[k].day_of_week,
                 start |-> hours[k].start_time_local,
                 end |-> hours[k].end_time_local]]

\* Lines 105-109: the first rule of that weekday decides (break).
IsWithinHours(hours, day_of_week, time_str) ==
    LET same == {k \in 1..Len(hours) : hours[k].day = day_of_week}
    IN IF same = {} THEN FALSE
       ELSE LET h == hours[CHOOSE k \in same : \A m \in same : k <= m]
            IN StrLeq(h.start, time_str) /\ StrLeq(time_str, h.end)

\* --------------------------------------------------- interval aggregator
\* A mutation of Between: the range filter of the query is lost.
BetweenNoFilter(timestamp_utc, start_time, end_time_) == TRUE

\* StoreStatus.timestamp_utc.between(start_time, end_time): both ends inclusive.
Between(timestamp_utc, start_time, end_time_) ==
    start_time <= timestamp_utc /\ timestamp_utc <= end_time_

\* The query of lines 73-77: the store's rows in the range, ascending by
\* timestamp_utc.  ORDER BY names no second key, so rows that share a timestamp
\* come in any order: every sequence the database may return.
StatusUpdates(store_id, start_time, end_time_) ==
    LET rows == {u \in store_status :
                    u.store_id = store_id /\ Between(u.timestamp_utc, start_time, end_time_)}
    IN {s \in Orderings(rows) :
            \A k \in 1..(Len(s) - 1) : s[k].timestamp_utc <= s[k + 1].timestamp_utc}

\* Lines 95-120 for one index of the loop: what the pair (status_updates[k],
\* status_updates[k+1]) adds to <<uptime_minutes, downtime_minutes>>.
PairMinutes(status_updates, k, hours, timezone) ==
    LET current == status_updates[k]
        next_update == status_updates[k + 1]
        local_time == LocalTime(current.timestamp_utc, timezone)
        time_diff == next_update.timestamp_utc - current.timestamp_utc
    IN IF ~IsWithinHours(hours, Weekday(local_time), TimeStr(local_time)) THEN <<0, 0>>
       ELSE IF current.status = "active" THEN <<time_diff, 0>>
       ELSE <<0, time_diff>>

\* The loop of lines 95-120 from index k on: the sum of what each pair adds.
RECURSIVE Accumulate(_, _, _, _)
Accumulate(status_updates, k, hours, timezone) ==
    IF k >= Len(status_updates) THEN <<0, 0>>
    ELSE LET here == PairMinutes(status_updates, k, hours, timezone)
             rest == Accumulate(status_updates, k + 1, hours, timezone)
         IN <<here[1] + rest[1], here[2] + rest[2]>>

\* _calculate_uptime_downtime once status_updates is fetched (lines 79-124).
CalculateUptimeDowntime(store_id, status_updates) ==
    IF status_updates = <<>> THEN <<0, 0>>
    ELSE Accumulate(status_updates, 1, GetBusinessHours(store_id), GetStoreTimezone(store_id))

\* ---------------------------------------------------------- window planner
\* A mutation of NewestStatus: the oldest row is taken for the newest.
NewestStatusOldest(rows) == CHOOSE u \in rows : \A v \in rows : u.timestamp_utc <= v.timestamp_utc

\* query(StoreStatus).order_by(timestamp_utc.desc()).first()
NewestStatus(rows) == CHOOSE u \in rows : \A v \in rows : v.timestamp_utc <= u.timestamp_utc

\* ------------------------------------------------------ batch orchestrator
\* (len(stores) + batch_size - 1) // batch_size
TotalBatches(n) == (n + batch_size - 1) \div batch_size

\* A mutation of InvalidBatch: the upper end of the range is not checked.
InvalidBatchNoUpper(batch_number, total) == batch_number < 1

\* Line 169: the selected batch number is out of range.
InvalidBatch(batch_number, total) == batch_number < 1 \/ batch_number > total

\* A mutation of BatchesToProcess: the selected batch is taken 0-based.
BatchesToProcessZeroBased(batch_number, n) ==
    IF batch_number = ALL_BATCHES THEN Range(0, n, batch_size)
    ELSE <<batch_number * batch_size>>

\* Lines 165-175: the start indexes of the batches to process.
BatchesToProcess(batch_number, n) ==
    IF batch_number = ALL_BATCHES THEN Range(0, n, batch_size)
    ELSE <<(batch_number - 1) * batch_size>>

\* batch = stores[i:i+batch_size]
batch == Slice(stores, i, i + batch_size)

\* Lines 195-203: the row of one store, values in hundredths.
StoreResults(store_id, m) ==
    [store_id |-> store_id,
     uptime_last_hour |-> Round2(m.uptime_hour, 1),
     uptime_last_day |-> Round2(m.uptime_day, MinutesPerHour),
     uptime_last_week |-> Round2(m.uptime_week, MinutesPerHour),
     downtime_last_hour |-> Round2(m.downtime_hour, 1),
     downtime_last_day |-> Round2(m.downtime_day, MinutesPerHour),
     downtime_last_week |-> Round2(m.downtime_week, MinutesPerHour)]

NoMetrics ==
    [uptime_hour |-> 0, downtime_hour |-> 0, uptime_day |-> 0,
     downtime_day |-> 0, uptime_week |-> 0, downtime_week |-> 0]

NoFetched == [hour |-> <<>>, day |-> <<>>, week |-> <<>>]

\* ------------------------------------------------------------------- Init
\* The state after the service is constructed (lines 14-20) and before a request.
InitRest ==
    /\ process_batch = ALL_BATCHES
    /\ db_report = NoRow
    /\ report = Unbound
    /\ artifact = NoFile
    /\ response = NoResponse
    /\ pc = "idle"
    /\ end_time = 0 /\ last_hour = 0 /\ last_day = 0 /\ last_week = 0
    /\ total_batches = 0
    /\ todo = <<>>
    /\ i = 0
    /\ batch_results = <<>>
    /\ results = <<>>
    /\ metrics = NoMetrics
    /\ fetched = NoFetched
    /\ agg_called = FALSE

\* Spec: any number of stores, no rules, no observation or one.
Init ==
    /\ \E n \in 0..MaxStores :
           stores = [k \in 1..n |-> [store_id |-> k, timezone |-> "America/Chicago"]]
    /\ business_hours = <<>>
    /\ store_status \in SUBSET RunStatusRows
    /\ InitRest

\* The rules a business_hours table of one store is drawn from.
Rules ==
    {[store_id |-> 1, day_of_week |-> d, start_time_local |-> iv[1], end_time_local |-> iv[2]] :
        d \in RuleDays, iv \in Intervals}

\* Sequences over S of length at most n.
SeqsUpTo(S, n) == UNION {[1..m -> S] : m \in 0..n}

\* AggSpec: one store, its rules and its observations drawn from the input sets.
AggInit ==
    /\ \E z \in Timezones : stores = <<[store_id |-> 1, timezone |-> z]>>
    /\ business_hours \in SeqsUpTo(Rules, MaxRules)
    /\ store_status \in
           {S \in SUBSET [store_id : {1}, timestamp_utc : TimePoints, status : Statuses] :
               Cardinality(S) <= MaxObs}
    /\ InitRest

\* ---------------------------------------------------------------- actions
\* Leaving generate_report: its frame is gone.
DropFrame ==
    /\ end_time' = 0 /\ last_hour' = 0 /\ last_day' = 0 /\ last_week' = 0
    /\ total_batches' = 0
    /\ todo' = <<>>
    /\ i' = 0
    /\ batch_results' = <<>>
    /\ results' = <<>>
    /\ metrics' = NoMetrics
    /\ fetched' = NoFetched

\* report.status = ReportStatus.FAILED; self.db.commit(); and the return that
\* follows (lines 147-149, 171-173, 253-254).
Fail(rep) ==
    /\ report' = [rep EXCEPT !.status = FAILED]
    /\ db_report' = report'
    /\ pc' = "done"
    /\ DropFrame

\* POST /trigger_report: create_report commits the Running row, the task is scheduled.
TriggerReport ==
    /\ pc = "idle"
    /\ \E now \in UtcNow :
           db_report' = [status |-> RUNNING, file_path |-> Null,
                         created_at |-> now, completed_at |-> Null]
    /\ pc' = "scheduled"
    /\ UNCHANGED <<data, process_batch, report, artifact, response, windows, locals, agg_called>>

\* set_process_batch, on the service whose task has not started.
SetProcessBatch ==
    /\ pc = "scheduled"
    /\ \E batch_number \in Selectors : process_batch' = batch_number
    /\ UNCHANGED <<data, db_report, report, artifact, response, pc, windows, locals, agg_called>>

\* generate_report from its start to the first batch (lines 128-176).
Start ==
    /\ pc = "scheduled"
    /\ UNCHANGED <<data, process_batch, artifact, response, agg_called>>
    /\ IF db_report = NoRow
       THEN \* lines 133-135: no such report
            /\ pc' = "done"
            /\ DropFrame
            /\ UNCHANGED <<db_report, report>>
       ELSE IF store_status = {}
       THEN \* lines 145-149: no status data
            Fail(db_report)
       ELSE IF process_batch # ALL_BATCHES
               /\ InvalidBatch(process_batch, TotalBatches(Len(stores)))
       THEN \* lines 169-173: invalid batch number
            Fail(db_report)
       ELSE /\ report' = db_report
            /\ end_time' = NewestStatus(store_status).timestamp_utc
            /\ last_hour' = end_time' - MinutesPerHour
            /\ last_day' = end_time' - MinutesPerDay
            /\ last_week' = end_time' - MinutesPerWeek
            /\ total_batches' = TotalBatches(Len(stores))
            /\ todo' = BatchesToProcess(process_batch, Len(stores))
            /\ pc' = "loop"
            /\ UNCHANGED <<db_report, i, batch_results, results, metrics, fetched>>

\* self.get_report raises inside the try (line 132): the handler assigns to
\* report, which is not bound yet, and that error leaves generate_report.
LookupRaises ==
    /\ pc = "scheduled"
    /\ pc' = "crashed"
    /\ UNCHANGED <<data, process_batch, db_report, report, artifact, response, windows, locals,
                   agg_called>>

\* A query of lines 138-143 raises: the handler of lines 251-254 runs.
QueryRaises ==
    /\ pc = "scheduled"
    /\ db_report # NoRow
    /\ Fail(db_report)
    /\ UNCHANGED <<data, process_batch, artifact, response, agg_called>>

\* The next iteration of "for i in batches_to_process" (lines 178-185).
BeginBatch ==
    /\ pc = "loop"
    /\ todo # <<>>
    /\ i' = Head(todo)
    /\ todo' = Tail(todo)
    /\ batch_results' = <<>>
    /\ pc' = "store"
    /\ UNCHANGED <<data, process_batch, db_report, report, artifact, response, windows,
                   total_batches, results, metrics, fetched, agg_called>>

\* One iteration of "for store_index, store in enumerate(batch, 1)" (lines 186-209).
ProcessStore ==
    /\ pc = "store"
    /\ Len(batch_results) < Len(batch)
    /\ LET store == batch[Len(batch_results) + 1]
       IN \E h \in StatusUpdates(store.store_id, last_hour, end_time),
             d \in StatusUpdates(store.store_id, last_day, end_time),
             w \in StatusUpdates(store.store_id, last_week, end_time) :
              LET mh == CalculateUptimeDowntime(store.store_id, h)
                  md == CalculateUptimeDowntime(store.store_id, d)
                  mw == CalculateUptimeDowntime(store.store_id, w)
              IN /\ metrics' = [uptime_hour |-> mh[1], downtime_hour |-> mh[2],
                                uptime_day |-> md[1], downtime_day |-> md[2],
                                uptime_week |-> mw[1], downtime_week |-> mw[2]]
                 /\ fetched' = [hour |-> h, day |-> d, week |-> w]
                 /\ batch_results' =
                        Append(batch_results, StoreResults(store.store_id, metrics'))
    /\ agg_called' = TRUE
    /\ UNCHANGED <<data, process_batch, db_report, report, artifact, response, pc, windows,
                   total_batches, todo, i, results>>

\* _calculate_uptime_downtime raises for a store: the handler of lines 251-254 runs.
AggregationRaises ==
    /\ pc = "store"
    /\ Len(batch_results) < Len(batch)
    /\ agg_called' = TRUE
    /\ Fail(report)
    /\ UNCHANGED <<data, process_batch, artifact, response>>

\* The end of a batch: results.extend(batch_results); self.db.commit() (lines 211-228).
EndBatch ==
    /\ pc = "store"
    /\ Len(batch_results) = Len(batch)
    /\ results' = results \o batch_results
    /\ db_report' = report
    /\ pc' = "loop"
    /\ UNCHANGED <<data, process_batch, report, artifact, response, windows,
                   total_batches, todo, i, batch_results, metrics, fetched, agg_called>>

\* pd.DataFrame(results).to_csv(file_path) (lines 230-235).
WriteArtifact ==
    /\ pc = "loop"
    /\ todo = <<>>
    /\ artifact' = [exists |-> TRUE, rows |-> results]
    /\ pc' = "written"
    /\ UNCHANGED <<data, process_batch, db_report, report, response, windows, locals,
                   agg_called>>

\* to_csv raises: the file was not created, or it was created and is incomplete;
\* the handler of lines 251-254 runs.
WriteRaises ==
    /\ pc = "loop"
    /\ todo = <<>>
    /\ artifact' \in {artifact, [exists |-> TRUE, rows |-> <<>>]}
    /\ Fail(report)
    /\ UNCHANGED <<data, process_batch, response, agg_called>>

\* A mutation of CompletedReport: the file path is not recorded.
CompletedReportNoPath(rep, now) ==
    [rep EXCEPT !.status = COMPLETED, !.completed_at = now]

\* Lines 239-241: the session object after the three assignments.
CompletedReport(rep, now) ==
    [rep EXCEPT !.status = COMPLETED, !.file_path = FilePath, !.completed_at = now]

\* Lines 237-242: the three assignments and the commit.
Complete ==
    /\ pc = "written"
    /\ \E now \in UtcNow : report' = CompletedReport(report, now)
    /\ db_report' = report'
    /\ pc' = "committed"
    /\ UNCHANGED <<data, process_batch, artifact, response, windows, locals, agg_called>>

\* The commit of line 242 raises: nothing of lines 239-241 is committed, and the
\* handler of lines 251-254 sets Failed on the same session object and commits.
CommitRaises ==
    /\ pc = "written"
    /\ \E now \in UtcNow : Fail(CompletedReport(report, now))
    /\ UNCHANGED <<data, process_batch, artifact, response, agg_called>>

\* Lines 244-249: the closing log lines divide by len(stores) and by
\* total_batches; with no store that raises ZeroDivisionError inside the try,
\* and the handler of lines 251-254 runs.
Finish ==
    /\ pc = "committed"
    /\ IF Len(stores) = 0 \/ total_batches = 0
       THEN Fail(report)
       ELSE /\ pc' = "done"
            /\ DropFrame
            /\ UNCHANGED <<db_report, report>>
    /\ UNCHANGED <<data, process_batch, artifact, response, agg_called>>

\* What GET /get_report answers from the committed row (main.py lines 28-49).
ReportResponse ==
    IF db_report = NoRow THEN "Not Found"
    ELSE IF db_report.status = RUNNING THEN "Running"
    ELSE IF db_report.status = COMPLETED
         THEN IF db_report.file_path = FilePath /\ artifact.exists THEN "File" ELSE "File Error"
    ELSE "Failed"

\* GET /get_report/{report_id}, at any moment.
GetReport ==
    /\ response' = ReportResponse
    /\ UNCHANGED <<data, process_batch, db_report, report, artifact, pc, windows, locals,
                   agg_called>>

Next ==
    \/ TriggerReport
    \/ SetProcessBatch
    \/ Start
    \/ LookupRaises
    \/ QueryRaises
    \/ BeginBatch
    \/ ProcessStore
    \/ AggregationRaises
    \/ EndBatch
    \/ WriteArtifact
    \/ WriteRaises
    \/ Complete
    \/ CommitRaises
    \/ Finish
    \/ GetReport

Spec == Init /\ [][Next]_vars

AggSpec == AggInit /\ [][Next]_vars

\* ----------------------------------------------------------------- claims
\* What the claims speak of, stated from the claims and not from the code above.

\* ceil(a / b)
CeilDiv(a, b) == IF a % b = 0 THEN a \div b ELSE a \div b + 1

\* A single batch index is selected and it lies outside [1, ceil(N / 100)].
SelectorOutOfRange ==
    /\ process_batch # ALL_BATCHES
    /\ (process_batch < 1 \/ process_batch > CeilDiv(Len(stores), batch_size))

\* The ids of the stores the selector names: all of them in list order, or those
\* at positions (k-1)*B+1 .. min(k*B, N).
SelectedStoreIds ==
    LET first == IF process_batch = ALL_BATCHES THEN 1 ELSE (process_batch - 1) * batch_size + 1
        last == IF process_batch = ALL_BATCHES THEN Len(stores)
                ELSE Min(process_batch * batch_size, Len(stores))
    IN [k \in 1..(last - first + 1) |-> stores[first + k - 1].store_id]

StoreIds(rows) == [k \in 1..Len(rows) |-> rows[k].store_id]

IsPrefix(s, t) == Len(s) <= Len(t) /\ s = SubSeq(t, 1, Len(s))

\* The run is between planning and its last commit.
Running == pc \in {"loop", "store", "written", "committed"}

\* C1: the committed status of a report run never changes again once it is
\* Completed or Failed.
C1_StatusMonotonic ==
    [][db_report.status \in {COMPLETED, FAILED} => db_report'.status = db_report.status]_vars

\* C2: whenever the committed status is Failed, the report file does not exist.
C2_FailedNoArtifact == db_report.status = FAILED => ~artifact.exists

\* C3: whenever the committed status is Completed, the file exists, the row names
\* it and carries completed_at, the file holds one row per store of the selected
\* batches, and a poller is never answered with a missing file; while the status
\* is Running neither file_path nor completed_at is visible.
C3_CompletedHasArtifact ==
    /\ db_report.status = COMPLETED =>
           /\ artifact.exists
           /\ db_report.file_path = FilePath
           /\ db_report.completed_at # Null
           /\ StoreIds(artifact.rows) = SelectedStoreIds
    /\ db_report.status = RUNNING =>
           db_report.file_path = Null /\ db_report.completed_at = Null
    /\ response # "File Error"
    /\ response = "File" => db_report.status \in {COMPLETED, FAILED}

\* A poller was answered with the file of a completed run over all 250 stores.
C3_Witness ==
    /\ response = "File"
    /\ db_report.status = COMPLETED
    /\ Len(stores) = 250
    /\ Len(artifact.rows) = 250

\* C4: with a single batch index outside [1, total_batch_count] the aggregator is
\* never called, no file is written, and once generate_report is past the record
\* lookup it has returned with the run committed as Failed.
C4_InvalidSelectorFails ==
    SelectorOutOfRange =>
        /\ ~agg_called
        /\ ~artifact.exists
        /\ pc \notin {"idle", "scheduled", "crashed"} =>
               pc = "done" /\ db_report.status = FAILED

\* Batch 4 of 250 stores was selected, observations exist, and the run is Failed.
C4_Witness ==
    /\ pc = "done"
    /\ process_batch = 4
    /\ Len(stores) = 250
    /\ store_status # {}
    /\ db_report.status = FAILED

\* C5: there are ceil(N/B) batches; the stores processed so far are, in order, a
\* prefix of the selected stores; a batch starts at a multiple of B and holds B
\* stores unless it is the last; when the loop is over, exactly the selected
\* stores were processed, each once.
C5_BatchPartition ==
    /\ Running => total_batches = CeilDiv(Len(stores), batch_size)
    /\ pc \in {"loop", "store"} =>
           IsPrefix(StoreIds(results), SelectedStoreIds)
    /\ pc = "store" =>
           /\ i % batch_size = 0
           /\ Len(batch) = Min(batch_size, Len(stores) - i)
           /\ Len(results) % batch_size = 0
           /\ IsPrefix(StoreIds(results \o batch_results), SelectedStoreIds)
           /\ process_batch # ALL_BATCHES => i = (process_batch - 1) * batch_size
           /\ process_batch = ALL_BATCHES => i = Len(results)
    /\ pc \in {"written", "committed"} => StoreIds(results) = SelectedStoreIds

\* Batch 2 of 250 stores was selected and exactly the stores 101..200 were processed.
C5_Witness ==
    /\ pc = "written"
    /\ process_batch = 2
    /\ Len(stores) = 250
    /\ StoreIds(results) = [k \in 1..100 |-> 100 + k]

\* C6: for each of the three windows, the active and the inactive minutes of the
\* store are not negative and together not more than the window is long.
C6_MinutesWithinWindow ==
    /\ metrics.uptime_hour >= 0 /\ metrics.downtime_hour >= 0
    /\ metrics.uptime_day >= 0 /\ metrics.downtime_day >= 0
    /\ metrics.uptime_week >= 0 /\ metrics.downtime_week >= 0
    /\ metrics.uptime_hour + metrics.downtime_hour <= end_time - last_hour
    /\ metrics.uptime_day + metrics.downtime_day <= end_time - last_day
    /\ metrics.uptime_week + metrics.downtime_week <= end_time - last_week

\* A store whose observations fill the whole week window, with minutes in the hour.
C6_Witness ==
    /\ pc = "store"
    /\ metrics.uptime_week + metrics.downtime_week = MinutesPerWeek
    /\ metrics.uptime_hour > 0
    /\ metrics.downtime_week > 0

\* The local time lies inside at least one rule of that weekday, bounds inclusive.
InSomeRule(hours, day_of_week, time_str) ==
    \E k \in 1..Len(hours) :
        /\ hours[k].day = day_of_week
        /\ StrLeq(hours[k].start, time_str)
        /\ StrLeq(time_str, hours[k].end)

\* The minutes of the claim: a gap counts, whole, iff its start is inside some rule.
RECURSIVE ClaimedMinutes(_, _, _, _)
ClaimedMinutes(status_updates, k, hours, timezone) ==
    IF k >= Len(status_updates) THEN <<0, 0>>
    ELSE LET local_time == LocalTime(status_updates[k].timestamp_utc, timezone)
             time_diff == status_updates[k + 1].timestamp_utc - status_updates[k].timestamp_utc
             counted == InSomeRule(hours, Weekday(local_time), TimeStr(local_time))
             rest == ClaimedMinutes(status_updates, k + 1, hours, timezone)
         IN IF ~counted THEN rest
            ELSE IF status_updates[k].status = "active" THEN <<rest[1] + time_diff, rest[2]>>
            ELSE <<rest[1], rest[2] + time_diff>>

\* C7: the minutes the aggregator returned for the week window are those of the
\* claim, where a gap counts iff its start lies inside at least one rule stored
\* for that local weekday.
C7_AnyRuleDecides ==
    pc = "store" /\ batch_results # <<>> =>
        LET store_id == batch[Len(batch_results)].store_id
        IN <<metrics.uptime_week, metrics.downtime_week>> =
               ClaimedMinutes(fetched.week, 1, GetBusinessHours(store_id),
                              GetStoreTimezone(store_id))

\* C8: once generate_report has ended, by returning or by an error that leaves
\* it, the committed status is Completed or Failed.
C8_EndsTerminal ==
    pc \in {"done", "crashed"} => db_report.status \in {COMPLETED, FAILED}

C10_MonotoneInWindow ==
    /\ metrics.uptime_hour <= metrics.uptime_day
    /\ metrics.uptime_day <= metrics.uptime_week
    /\ metrics.downtime_hour <= metrics.downtime_day
    /\ metrics.downtime_day <= metrics.downtime_week

====
